---- MODULE Spec2Model ----
(***************************************************************************)
(* Serena MCP server: the dispatcher handle_mcp_request of                 *)
(* serena_server.py over the in-memory conversation store and the relay    *)
(* proxy helpers, and upsert_file of routers/github_utils.py.              *)
(*                                                                         *)
(* JSON objects (Python dicts) are functions from the keys present to      *)
(* their values; Python's None is the string "None"; a uuid4 string is the *)
(* number of the uuid4() call that returned it.                            *)
(***************************************************************************)
EXTENDS Integers, Sequences, FiniteSets, TLC

\* ------------------------------------------------------------- bounds
\* uuid4() calls (conversation ids and message ids) of one run
MaxUuid == 3
\* inbound calls in flight at once (one task per inbound call)
NTasks == 2
\* entries of a commit_files "files" list
MaxFiles == 2

VARIABLES
    conversations,  \* the module-level dict: conversation id -> conversation
    uuids,          \* how many uuid4() values have been drawn
    tasks,          \* one record per task slot: the coroutine's position and locals
    last,           \* the call that completed last: request, outcome, upstream calls
    appended,       \* history: per conversation id, the acknowledged add_message calls
    deleted,        \* history: ids whose delete_conversation returned success
    environ         \* os.environ: the names of the variables that are set

vars == <<conversations, uuids, tasks, last, appended, deleted, environ>>

Tasks == 1..NTasks
None == "None"

\* ------------------------------------------------------- Python values
\* dict.get(key, default)
Get(d, k, default) == IF k \in DOMAIN d THEN d[k] ELSE default

\* A conversation_id as a caller can send it: a string, or a JSON array
\* (a Python list, which is unhashable); an absent key reads as None.
StrId(u) == [t |-> "str", v |-> u]
ListId == [t |-> "list", v |-> 1]
EmptyListId == [t |-> "list", v |-> 0]
NoneId == [t |-> "none", v |-> 0]

\* bool(cid): None, "" and [] are falsy
Truthy(cid) == \/ cid.t = "str"
               \/ cid.t = "list" /\ cid.v > 0

\* hash(cid) raises TypeError for a list
Hashable(cid) == cid.t # "list"

\* cid in conversations, for a hashable cid
IsKey(cid, convs) == cid.t = "str" /\ cid.v \in DOMAIN convs

\* A "message" value: a JSON object, or a JSON string (truthy, no .get)
DictMsg(d) == [t |-> "dict", d |-> d]
StrMsg == [t |-> "str", d |-> <<>>]
NoneMsg == [t |-> "none", d |-> <<>>]

\* bool(msg): None and {} are falsy
MsgTruthy(msg) == \/ msg.t = "str"
                  \/ msg.t = "dict" /\ DOMAIN msg.d # {}

\* ----------------------------------------------------- handler results
Return(obj) == [kind |-> "return", obj |-> obj, exc |-> None]
Raise(exc) == [kind |-> "fault", obj |-> <<>>, exc |-> exc]
NoResult == [kind |-> "none", obj |-> <<>>, exc |-> None]

IsError(r) == r.kind = "return" /\ "error" \in DOMAIN r.obj
IsFault(r) == r.kind = "fault"
IsSuccess(r) == /\ r.kind = "return"
                /\ "success" \in DOMAIN r.obj
                /\ r.obj["success"] = "True"
NotFound(r) == IsError(r) /\ r.obj["error"] = "Conversation not found"

\* uuid.uuid4(): a value no earlier call returned
Uuid4Reused(n) == 1
Uuid4(n) == n + 1

\* -------------------------------------------- conversation handlers
\* conversations[cid] = value (a dict assignment: adds the key or overwrites it)
Store(convs, cid, conv) ==
    [k \in DOMAIN convs \cup {cid} |-> IF k = cid THEN conv ELSE convs[k]]

\* del conversations[cid]
Del(convs, cid) == [k \in DOMAIN convs \ {cid} |-> convs[k]]

\* What a handler hands back: its result, the store and the uuid count after it
Outcome(result, convs, n) == [result |-> result, conversations |-> convs, uuids |-> n]

\* the conversation record create_conversation stores
NewConversation(cid, params) ==
    [id |-> cid,
     title |-> Get(params, "title", "New Conversation"),
     messages |-> <<>>,
     created_at |-> Get(params, "created_at", None),
     updated_at |-> Get(params, "updated_at", None),
     metadata |-> Get(params, "metadata", "{}")]

create_conversation(params, convs, n) ==
    LET cid == Uuid4(n)
    IN  Outcome(Return([conversation_id |-> cid, success |-> "True"]),
                Store(convs, cid, NewConversation(cid, params)), cid)

\* {"conversation": conversations[cid]}: the stored record, named by its id
get_conversation(params, convs, n) ==
    LET cid == Get(params, "conversation_id", NoneId)
    IN  IF ~Truthy(cid)
        THEN Outcome(Return([error |-> "Conversation not found"]), convs, n)
        ELSE IF ~Hashable(cid)
        THEN Outcome(Raise("TypeError"), convs, n)
        ELSE IF ~IsKey(cid, convs)
        THEN Outcome(Return([error |-> "Conversation not found"]), convs, n)
        ELSE Outcome(Return([conversation |-> cid.v]), convs, n)

\* {"conversations": list(conversations.values())}: the records, named by id
list_conversations(params, convs, n) ==
    Outcome(Return([conversations |-> DOMAIN convs]), convs, n)

\* msg_obj of add_message
MsgObj(mid, msg) ==
    [id |-> mid,
     content |-> Get(msg.d, "content", ""),
     role |-> Get(msg.d, "role", "user"),
     created_at |-> Get(msg.d, "created_at", None),
     metadata |-> Get(msg.d, "metadata", "{}")]

\* conversations[cid]["messages"].append(msg_obj);
\* conversations[cid]["updated_at"] = msg_obj["created_at"]
AppendStaleTimestamp(convs, cid, msg_obj) ==
    [convs EXCEPT ![cid].messages = Append(@, msg_obj)]
AppendOverwrites(convs, cid, msg_obj) ==
    [convs EXCEPT ![cid].messages = <<msg_obj>>,
                  ![cid].updated_at = msg_obj.created_at]
AppendMessage(convs, cid, msg_obj) ==
    [convs EXCEPT ![cid].messages = Append(@, msg_obj),
                  ![cid].updated_at = msg_obj.created_at]

add_message(params, convs, n) ==
    LET cid == Get(params, "conversation_id", NoneId)
        msg == Get(params, "message", NoneMsg)
        mid == Uuid4(n)
    IN  IF ~Truthy(cid)
        THEN Outcome(Return([error |-> "Conversation not found"]), convs, n)
        ELSE IF ~Hashable(cid)
        THEN Outcome(Raise("TypeError"), convs, n)
        ELSE IF ~IsKey(cid, convs)
        THEN Outcome(Return([error |-> "Conversation not found"]), convs, n)
        ELSE IF ~MsgTruthy(msg)
        THEN Outcome(Return([error |-> "message param required"]), convs, n)
        ELSE IF msg.t # "dict"
        THEN Outcome(Raise("AttributeError"), convs, mid)
        ELSE Outcome(Return([message_id |-> mid, success |-> "True"]),
                     AppendMessage(convs, cid.v, MsgObj(mid, msg)), mid)

delete_conversation(params, convs, n) ==
    LET cid == Get(params, "conversation_id", NoneId)
    IN  IF ~Hashable(cid)
        THEN Outcome(Raise("TypeError"), convs, n)
        ELSE IF IsKey(cid, convs)
        THEN Outcome(Return([success |-> "True"]), Del(convs, cid.v), n)
        ELSE Outcome(Return([error |-> "Conversation not found"]), convs, n)

ProxyFunctions == {"create_branch", "commit_files", "open_pr", "deploy_fly"}
StoreFunctions == {"create_conversation", "get_conversation", "list_conversations",
                   "add_message", "delete_conversation"}

\* the conversation branches of handle_mcp_request, and its last line
DispatchStore(function_name, params, convs, n) ==
    CASE function_name = "create_conversation" -> create_conversation(params, convs, n)
      [] function_name = "get_conversation" -> get_conversation(params, convs, n)
      [] function_name = "list_conversations" -> list_conversations(params, convs, n)
      [] function_name = "add_message" -> add_message(params, convs, n)
      [] function_name = "delete_conversation" -> delete_conversation(params, convs, n)
      [] OTHER -> Outcome(Return([error |-> "Unknown function"]), convs, n)

\* ------------------------------------------------------ request inputs
\* conversation_id values a caller sends
CidVals == {ListId, EmptyListId} \cup {StrId(u) : u \in 1..MaxUuid}

\* message values a caller sends: a string, the empty object, and two
\* objects, the last of which gives no created_at (its message has None)
MsgVals == {StrMsg,
            DictMsg(<<>>),
            DictMsg([content |-> "hi", created_at |-> "t1"]),
            DictMsg([role |-> "assistant", metadata |-> "m"])}

CidParams == {<<>>} \cup {[conversation_id |-> c] : c \in CidVals}
MsgParams == {<<>>} \cup {[message |-> m] : m \in MsgVals}
CreateParams == {<<>>,
                 [title |-> "demo", created_at |-> "t0", updated_at |-> "t0",
                  metadata |-> "m"]}

Functions == StoreFunctions \cup ProxyFunctions \cup {"frobnicate"}

\* the JSON objects tried as the body of a call, per function_name
StoreParams ==
    [f \in Functions |->
        CASE f = "create_conversation" -> CreateParams
          [] f \in {"get_conversation", "delete_conversation"} -> CidParams
          [] f = "add_message" -> {c @@ m : c \in CidParams, m \in MsgParams}
          [] OTHER -> {<<>>}]

\* the bodies tried when several calls are in flight: well-formed calls on
\* every conversation id
ConcurrentParams ==
    [f \in Functions |->
        CASE f = "create_conversation" -> {<<>>}
          [] f = "delete_conversation" -> {[conversation_id |-> StrId(u)] : u \in 1..MaxUuid}
          [] f = "add_message" ->
               {[conversation_id |-> StrId(u),
                 message |-> DictMsg([content |-> "hi", created_at |-> "t1"])] :
                    u \in 1..MaxUuid}
          [] OTHER -> {<<>>}]

\* the secrets the proxy helpers read from the environment
TokenNames == {"GITHUB_TOKEN", "FLY_AUTH_TOKEN"}

\* --------------------------------------------------------------- tasks
IdleTask == [pc |-> "idle", fn |-> "none", params |-> <<>>, io |-> <<>>]
NoCall == [fn |-> "none", body |-> "none", params |-> <<>>, result |-> NoResult,
           known |-> FALSE, wasDeleted |-> FALSE, mutated |-> FALSE,
           overlapped |-> FALSE, io |-> <<>>]

\* the record of a completed call: what was asked and what came back; whether
\* its conversation_id was a key of the store, or an id deleted earlier, when the
\* handler ran; whether the handler changed the store; whether another call
\* was in flight meanwhile; the upstream requests it made
Completed(t, body, params, result, convs, io) ==
    LET cid == Get(params, "conversation_id", NoneId)
    IN  [fn |-> tasks[t].fn, body |-> body, params |-> params, result |-> result,
         known |-> IsKey(cid, conversations),
         wasDeleted |-> (cid.t = "str" /\ cid.v \in deleted),
         mutated |-> (convs # conversations),
         overlapped |-> (\E u \in Tasks \ {t} : tasks[u].pc # "idle"),
         io |-> io]

Init ==
    /\ conversations = <<>>
    /\ uuids = 0
    /\ tasks = [t \in Tasks |-> IdleTask]
    /\ last = NoCall
    /\ appended = <<>>
    /\ deleted = {}
    /\ environ \in SUBSET TokenNames

\* POST /mcp/{function_name} arrives: a task starts and suspends in
\* "await request.json()"
Receive(t, function_name) ==
    /\ tasks[t].pc = "idle"
    /\ tasks' = [tasks EXCEPT ![t] = [IdleTask EXCEPT !.pc = "parse",
                                                      !.fn = function_name]]
    /\ UNCHANGED <<conversations, uuids, last, appended, deleted, environ>>

\* request.json() raises JSONDecodeError: {"error": "Invalid JSON"}
InvalidJson(t) ==
    /\ tasks[t].pc = "parse"
    /\ last' = Completed(t, "invalid", <<>>, Return([error |-> "Invalid JSON"]),
                         conversations, <<>>)
    /\ tasks' = [tasks EXCEPT ![t] = IdleTask]
    /\ UNCHANGED <<conversations, uuids, appended, deleted, environ>>

\* history of acknowledged appends and deletions, kept beside the store
AppendedAfter(function_name, params, out) ==
    LET cid == Get(params, "conversation_id", NoneId)
    IN  CASE function_name = "create_conversation" /\ IsSuccess(out.result) ->
               Store(appended, out.result.obj["conversation_id"], <<>>)
          [] function_name = "add_message" /\ IsSuccess(out.result) ->
               [appended EXCEPT ![cid.v] =
                   Append(@, [id |-> out.result.obj["message_id"],
                              created_at |-> Get(params["message"].d, "created_at", None)])]
          [] function_name = "delete_conversation" /\ IsSuccess(out.result) ->
               [k \in DOMAIN appended \ {cid.v} |-> appended[k]]
          [] OTHER -> appended

DeletedAfter(function_name, params, out) ==
    IF function_name = "delete_conversation" /\ IsSuccess(out.result)
    THEN deleted \cup {params["conversation_id"].v}
    ELSE deleted

\* request.json() returns params; the rest of a conversation handler (or the
\* unknown-function line) runs to its return or its exception with no await
HandleStore(t, bodies) ==
    /\ tasks[t].pc = "parse"
    /\ tasks[t].fn \notin ProxyFunctions
    /\ \E params \in bodies[tasks[t].fn] :
         LET out == DispatchStore(tasks[t].fn, params, conversations, uuids)
         IN  /\ out.uuids <= MaxUuid
             /\ conversations' = out.conversations
             /\ uuids' = out.uuids
             /\ appended' = AppendedAfter(tasks[t].fn, params, out)
             /\ deleted' = DeletedAfter(tasks[t].fn, params, out)
             /\ last' = Completed(t, "object", params, out.result,
                                  out.conversations, <<>>)
    /\ tasks' = [tasks EXCEPT ![t] = IdleTask]
    /\ UNCHANGED environ

\* calls handled one at a time, with every kind of body
Next ==
    \/ \E f \in StoreFunctions \cup {"frobnicate"} : Receive(1, f)
    \/ InvalidJson(1)
    \/ HandleStore(1, StoreParams)

Spec == Init /\ [][Next]_vars

\* up to NTasks calls in flight at once
ConcurrentFunctions == {"create_conversation", "add_message", "delete_conversation"}

NextConcurrent ==
    \/ \E t \in Tasks : \E f \in ConcurrentFunctions : Receive(t, f)
    \/ \E t \in Tasks : HandleStore(t, ConcurrentParams)

SpecConcurrent == Init /\ [][NextConcurrent]_vars

\* ------------------------------------------------------- relay proxies
\* What answers an upstream request: no response at all (the transport
\* failed), or a status with a body that is a JSON object, a JSON array or
\* not JSON.  The upstream is opaque: every status comes with every body.
TransportError == [status |-> 0, json |-> "none", body |-> <<>>]
Pending == [status |-> -1, json |-> "none", body |-> <<>>]
Statuses == {200, 201, 404, 422}
JsonObjects == {[sha |-> "s1"], [sha |-> "s2"], [message |-> "Not Found"],
                [error |-> "upstream"]}
Replies ==
    {TransportError}
        \cup {[status |-> st, json |-> "object", body |-> b] :
                 st \in Statuses, b \in JsonObjects}
        \cup {[status |-> st, json |-> j, body |-> <<>>] :
                 st \in Statuses, j \in {"array", "none"}}

\* one client.request(...) or client.get/put(...), with what answered it
Request(method, url, query, payload) ==
    [method |-> method, url |-> url, query |-> query, payload |-> payload,
     reply |-> Pending]

\* what a handler does up to its first await: raise, return, or forward
Forward(api, method, path, payload) ==
    [kind |-> "forward", api |-> api,
     request |-> Request(method, <<"relay", api>> \o path, <<>>, payload)]

create_branch(params) ==
    IF {"repo", "new_branch", "base"} \subseteq DOMAIN params
    THEN Forward("github", "POST", <<"repos", params["repo"], "git", "refs">>,
                 [ref |-> <<"refs/heads", params["new_branch"]>>,
                  sha |-> params["base"]])
    ELSE Raise("KeyError")

\* commit_files: with no files the loop body never runs; otherwise its
\* first pass raises before any await.  serena_server.py imports os, json,
\* uuid, logging, typing, httpx, fastapi, functools and uvicorn, and never
\* base64: building the payload evaluates the name base64 and raises
\* NameError, after f["message"] and before f["content"] and params["branch"].
commit_files(params) ==
    IF "files" \notin DOMAIN params
    THEN Raise("KeyError")
    ELSE IF params["files"] = <<>>
    THEN Return([results |-> <<>>])
    ELSE LET f == params["files"][1]
         IN  IF "repo" \in DOMAIN params /\ {"path", "message"} \subseteq DOMAIN f
             THEN Raise("NameError")
             ELSE Raise("KeyError")

open_pr(params) ==
    IF {"repo", "title", "head", "base"} \subseteq DOMAIN params
    THEN Forward("github", "POST", <<"repos", params["repo"], "pulls">>,
                 [title |-> params["title"], head |-> params["head"],
                  base |-> params["base"], body |-> Get(params, "body", "")])
    ELSE Raise("KeyError")

deploy_fly(params) ==
    IF {"app", "image_tag"} \subseteq DOMAIN params
    THEN Forward("fly", "POST", <<"v1", "apps", params["app"], "deploys">>,
                 [image |-> params["image_tag"]])
    ELSE Raise("KeyError")

\* the GitHub / Fly branches of handle_mcp_request
DispatchProxy(function_name, params) ==
    CASE function_name = "create_branch" -> create_branch(params)
      [] function_name = "commit_files" -> commit_files(params)
      [] function_name = "open_pr" -> open_pr(params)
      [] function_name = "deploy_fly" -> deploy_fly(params)

\* os.environ[...] in forward_to_github / forward_to_fly
TokenOf(api) == IF api = "github" THEN "GITHUB_TOKEN" ELSE "FLY_AUTH_TOKEN"

\* "return r.json()" of forward_to_github / forward_to_fly, after the await
ForwardResult(reply) ==
    IF reply = TransportError THEN Raise("TransportError")
    ELSE IF reply.json = "none" THEN Raise("JSONDecodeError")
    ELSE Return(reply.body)

\* ---------------------------------------------------- request inputs
Restrict(d, keys) == [k \in keys |-> d[k]]

BranchArgs == [repo |-> "o/r", base |-> "c0ffee", new_branch |-> "feat"]
PrArgs == [repo |-> "o/r", title |-> "t", head |-> "feat", base |-> "main", body |-> "b"]
FlyArgs == [app |-> "serena", image_tag |-> "v1"]
FileVals == {[path |-> "a.txt", content |-> "x", message |-> "m"],
             [path |-> "b.txt", content |-> "y"]}
FileLists == UNION {[1..n -> FileVals] : n \in 0..MaxFiles}

ProxyParams ==
    [f \in ProxyFunctions |->
        CASE f = "create_branch" ->
               {Restrict(BranchArgs, keys) : keys \in SUBSET DOMAIN BranchArgs}
          [] f = "open_pr" ->
               {PrArgs} \cup {Restrict(PrArgs, DOMAIN PrArgs \ {k}) : k \in DOMAIN PrArgs}
          [] f = "deploy_fly" ->
               {Restrict(FlyArgs, keys) : keys \in SUBSET DOMAIN FlyArgs}
          [] f = "commit_files" ->
               {Restrict([repo |-> "o/r", branch |-> "main"], keys) @@ fl :
                   keys \in SUBSET {"repo", "branch"},
                   fl \in {<<>>} \cup {[files |-> l] : l \in FileLists}}]

\* ------------------------------------------------------ proxy actions
\* a task returns or raises: its call is complete
Complete(t, params, result, io) ==
    /\ last' = Completed(t, "object", params, result, conversations, io)
    /\ tasks' = [tasks EXCEPT ![t] = IdleTask]

\* request.json() returns params; a proxy handler builds its request and, in
\* forward_to_*, reads the token and suspends in client.request
HandleProxy(t) ==
    /\ tasks[t].pc = "parse"
    /\ tasks[t].fn \in ProxyFunctions
    /\ \E params \in ProxyParams[tasks[t].fn] :
         LET step == DispatchProxy(tasks[t].fn, params)
         IN  IF step.kind # "forward"
             THEN Complete(t, params, step, <<>>)
             ELSE IF TokenOf(step.api) \notin environ
             THEN Complete(t, params, Raise("KeyError"), <<>>)
             ELSE /\ tasks' = [tasks EXCEPT ![t].pc = "request",
                                            ![t].params = params,
                                            ![t].io = <<step.request>>]
                  /\ UNCHANGED last
    /\ UNCHANGED <<conversations, uuids, appended, deleted, environ>>

\* the request is answered (or fails); the handler returns r.json()
UpstreamReply(t) ==
    /\ tasks[t].pc = "request"
    /\ \E reply \in Replies :
         Complete(t, tasks[t].params, ForwardResult(reply),
                  [tasks[t].io EXCEPT ![Len(tasks[t].io)].reply = reply])
    /\ UNCHANGED <<conversations, uuids, appended, deleted, environ>>

\* ------------------------------------------- github_utils.upsert_file
UpsertArgs == {[owner |-> "o", repo |-> "r", path |-> p, branch |-> "main",
                message |-> "m", content_b64 |-> "eA==", token |-> "tok"] :
                  p \in {"a.txt", "b.txt"}}

\* url of upsert_file
ContentsUrl(args) == <<"api.github.com", "repos", args["owner"], args["repo"],
                       "contents", args["path"]>>

\* r.json()["sha"] raises: the body is not JSON, not an object, or has no sha
ShaRaises(reply) ==
    /\ reply.status = 200
    /\ reply.json # "object" \/ "sha" \notin DOMAIN reply.body

\* sha as upsert_file leaves it after the GET
ShaForgotten(reply) == None
ShaOf(reply) == IF reply.status = 200 THEN reply.body["sha"] ELSE None

\* payload of upsert_file
UpsertPayload(args, sha) ==
    [message |-> args["message"], content |-> args["content_b64"],
     branch |-> args["branch"], sha |-> sha]

\* upsert_file(...) is called and suspends in client.get
UpsertCall(t) ==
    /\ tasks[t].pc = "idle"
    /\ \E args \in UpsertArgs :
         tasks' = [tasks EXCEPT ![t] =
                      [pc |-> "get", fn |-> "upsert_file", params |-> args,
                       io |-> <<Request("GET", ContentsUrl(args),
                                        [ref |-> args["branch"]], <<>>)>>]]
    /\ UNCHANGED <<conversations, uuids, last, appended, deleted, environ>>

\* the GET is answered: upsert_file raises, or builds the payload and suspends
\* in client.put
UpsertGetReply(t) ==
    /\ tasks[t].pc = "get"
    /\ \E reply \in Replies :
         LET args == tasks[t].params
             io == [tasks[t].io EXCEPT ![1].reply = reply]
         IN  IF reply = TransportError
             THEN Complete(t, args, Raise("TransportError"), io)
             ELSE IF ShaRaises(reply)
             THEN Complete(t, args, Raise("ShaError"), io)
             ELSE /\ tasks' = [tasks EXCEPT ![t].pc = "put",
                                   ![t].io = Append(io,
                                       Request("PUT", ContentsUrl(args), <<>>,
                                               UpsertPayload(args, ShaOf(reply))))]
                  /\ UNCHANGED last
    /\ UNCHANGED <<conversations, uuids, appended, deleted, environ>>

\* the PUT is answered: upsert_file returns its JSON body
UpsertPutReply(t) ==
    /\ tasks[t].pc = "put"
    /\ \E reply \in Replies :
         Complete(t, tasks[t].params, ForwardResult(reply),
                  [tasks[t].io EXCEPT ![2].reply = reply])
    /\ UNCHANGED <<conversations, uuids, appended, deleted, environ>>

NextProxy ==
    \/ \E f \in ProxyFunctions : Receive(1, f)
    \/ InvalidJson(1)
    \/ HandleProxy(1)
    \/ UpstreamReply(1)
    \/ UpsertCall(1)
    \/ UpsertGetReply(1)
    \/ UpsertPutReply(1)

SpecProxy == Init /\ [][NextProxy]_vars

\* ------------------------------------------------ conversation claims
LastCid == Get(last.params, "conversation_id", NoneId)
LastMsg == Get(last.params, "message", NoneMsg)
LastHandled(fns) == last.fn \in fns /\ last.body = "object"

\* C1: a conversation that acknowledged N add_message calls holds exactly N
\* messages, in the order of the calls, and its updated_at is the created_at
\* of the message appended last.
C1_AppendsKeptInOrder ==
    /\ DOMAIN appended = DOMAIN conversations
    /\ \A cid \in DOMAIN conversations \cap DOMAIN appended :
         LET messages == conversations[cid].messages
             acked == appended[cid]
         IN  /\ Len(messages) = Len(acked)
             /\ \A i \in 1..Len(acked) :
                  /\ messages[i].id = acked[i].id
                  /\ messages[i].created_at = acked[i].created_at
             /\ Len(acked) > 0 =>
                  /\ conversations[cid].updated_at = acked[Len(acked)].created_at
                  /\ conversations[cid].updated_at = messages[Len(messages)].created_at

\* two messages with different timestamps appended to one conversation that
\* was created with a third
C1_TwoAppended ==
    \E cid \in DOMAIN conversations :
        /\ conversations[cid].created_at = "t0"
        /\ Len(conversations[cid].messages) = 2
        /\ conversations[cid].messages[1].created_at = "t1"
        /\ conversations[cid].messages[2].created_at = None
        /\ conversations[cid].updated_at = None
        /\ LastHandled({"add_message"}) /\ IsSuccess(last.result)

\* C2: get_conversation, add_message and delete_conversation on a
\* conversation_id that is not a key of the store (or is absent) return the
\* NotFound error object, raise nothing and leave the store as it was.
C2_UnknownIdIsNotFound ==
    (/\ LastHandled({"get_conversation", "add_message", "delete_conversation"})
     /\ ~last.known)
        => /\ NotFound(last.result)
           /\ ~last.mutated

\* C3: an id whose delete_conversation succeeded is never a key again, and
\* every later get_conversation, add_message and delete_conversation on it
\* returns NotFound.
C3_DeletedStaysDeleted ==
    /\ deleted \cap DOMAIN conversations = {}
    /\ (/\ LastHandled({"get_conversation", "add_message", "delete_conversation"})
        /\ last.wasDeleted)
           => NotFound(last.result) /\ ~last.mutated

\* a second delete of a deleted id answered NotFound while a conversation
\* created after the deletion is in the store
C3_SecondDeleteNotFound ==
    /\ LastHandled({"delete_conversation"})
    /\ last.wasDeleted
    /\ NotFound(last.result)
    /\ \E cid \in DOMAIN conversations : \E d \in deleted : cid > d

\* C9: add_message on a string or absent conversation_id ends in one of three
\* ways: NotFound when the id is no key of the store; the "message param
\* required" error when the id is a key and no message is given; otherwise,
\* for a message object (even the empty one), one message appended with
\* content "" and role "user" where not given, updated_at set to its
\* created_at, and a fresh message_id returned.  The two errors leave the store.
C9_AddMessageOutcomes ==
    (LastHandled({"add_message"}) /\ LastCid.t # "list" /\ LastMsg.t # "str")
        => \/ ~last.known /\ NotFound(last.result) /\ ~last.mutated
           \/ /\ last.known
              /\ LastMsg.t = "none"
              /\ IsError(last.result)
              /\ last.result.obj["error"] = "message param required"
              /\ ~last.mutated
           \/ /\ last.known
              /\ LastMsg.t = "dict"
              /\ IsSuccess(last.result)
              /\ LET messages == conversations[LastCid.v].messages
                     m == messages[Len(messages)]
                 IN  /\ m.id = last.result.obj["message_id"]
                     /\ m.id = uuids
                     /\ m.content = Get(LastMsg.d, "content", "")
                     /\ m.role = Get(LastMsg.d, "role", "user")
                     /\ conversations[LastCid.v].updated_at = m.created_at

\* C10: with several calls in flight, every acknowledged add_message is in its
\* conversation exactly once for as long as the conversation exists, and the
\* conversation holds nothing else.
C10_NoLostUpdate ==
    \A cid \in DOMAIN conversations :
        /\ cid \in DOMAIN appended
        /\ LET messages == conversations[cid].messages
               acked == appended[cid]
           IN  /\ \A i \in 1..Len(acked) :
                    Cardinality({j \in 1..Len(messages) : messages[j].id = acked[i].id}) = 1
               /\ \A j \in 1..Len(messages) :
                    \E i \in 1..Len(acked) : acked[i].id = messages[j].id

\* two acknowledged appends to one conversation, the second handled while
\* another call was in flight
C10_OverlappedAppends ==
    /\ LastHandled({"add_message"})
    /\ IsSuccess(last.result)
    /\ last.overlapped
    /\ Len(conversations[LastCid.v].messages) = 2
    /\ \E t \in Tasks : tasks[t].pc = "parse" /\ tasks[t].fn = "add_message"

\* ------------------------------------------------------- proxy claims
\* params = {...} as each handler documents them
RequiredParams ==
    [f \in StoreFunctions \cup ProxyFunctions |->
        CASE f = "create_branch" -> {"repo", "base", "new_branch"}
          [] f = "commit_files" -> {"repo", "branch", "files"}
          [] f = "open_pr" -> {"repo", "title", "head", "base"}
          [] f = "deploy_fly" -> {"app", "image_tag"}
          [] f \in {"get_conversation", "delete_conversation"} -> {"conversation_id"}
          [] f = "add_message" -> {"conversation_id", "message"}
          [] OTHER -> {}]

LastReply == last.io[Len(last.io)].reply
Answered(reply) == reply.status \in Statuses

\* C4: a call whose params lack a required parameter returns an error
\* object, raises nothing, makes no upstream request and leaves the store.
C4_MissingParamIsReported ==
    (/\ LastHandled(DOMAIN RequiredParams)
     /\ ~(RequiredParams[last.fn] \subseteq DOMAIN last.params))
        => /\ IsError(last.result)
           /\ last.io = <<>>
           /\ ~last.mutated

\* C5: a proxy handler that finds its token missing from the environment,
\* or whose upstream request fails in transport, returns an object with an
\* error field: no exception leaves handle_mcp_request.
C5_FailureIsReported ==
    (/\ LastHandled(ProxyFunctions)
     /\ \/ /\ DispatchProxy(last.fn, last.params).kind = "forward"
           /\ TokenOf(DispatchProxy(last.fn, last.params).api) \notin environ
        \/ last.io # <<>> /\ LastReply = TransportError)
        => IsError(last.result)

\* the ref-creating POST answered as the source host answers it: 201 with
\* the new ref, an error status with a {"message": ...} object
HostAnswer(reply) ==
    /\ Answered(reply)
    /\ reply.json = "object"
    /\ IF reply.status = 201
       THEN "sha" \in DOMAIN reply.body
       ELSE reply.status >= 400 /\ "message" \in DOMAIN reply.body

\* C6: create_branch reports success when the ref-creating POST is answered
\* 201 or 422 (so a retry with the same parameters succeeds again), and an
\* error for any other status.
C6_CreateBranchByStatus ==
    (/\ LastHandled({"create_branch"})
     /\ last.io # <<>>
     /\ HostAnswer(LastReply))
        => IF LastReply.status \in {201, 422}
           THEN last.result.kind = "return" /\ ~IsError(last.result)
           ELSE IsError(last.result)

\* C7: commit_files on N well-formed files returns exactly N results, the
\* i-th being the outcome of the PUT of the i-th file.
C7_OneResultPerFile ==
    (/\ LastHandled({"commit_files"})
     /\ RequiredParams["commit_files"] \subseteq DOMAIN last.params
     /\ \A i \in 1..Len(last.params["files"]) :
            DOMAIN last.params["files"][i] = {"path", "content", "message"})
        => /\ last.result.kind = "return"
           /\ "results" \in DOMAIN last.result.obj
           /\ Len(last.result.obj["results"]) = Len(last.params["files"])
           /\ Len(last.io) = Len(last.params["files"])
           /\ \A i \in 1..Len(last.io) :
                /\ last.io[i].method = "PUT"
                /\ last.io[i].url[Len(last.io[i].url)] = last.params["files"][i]["path"]

\* a PUT to a repository's contents endpoint
IsFileWrite(rq) == rq.method = "PUT" /\ \E i \in 1..Len(rq.url) : rq.url[i] = "contents"

\* the request sequences of the calls in flight and of the call completed last
Traces == {last.io} \cup {tasks[t].io : t \in Tasks}

====
